---- MODULE Spec2Model ----
(***************************************************************************)
(* Reminder dispatch of the debate calendar: the subscription API          *)
(* (POST/DELETE /api/subscriptions) and the cron trigger                   *)
(* (GET /api/reminders/run) over the event, subscription and push          *)
(* subscription tables.                                                    *)
(*                                                                         *)
(* Instants are milliseconds since the midnight of the day of the events   *)
(* (Date.getTime() shifted by a constant).  A value that may be absent is  *)
(* Null, Undefined or Num(n); records keep the three apart.                *)
(***************************************************************************)
EXTENDS Integers, Sequences, FiniteSets, TLC

VARIABLES
    clock,              \* the wall clock read by new Date()
    env,                \* process.env, read once at module load
    events,             \* table Event
    subscriptions,      \* table Subscription (email)
    pushSubscriptions,  \* table PushSubscription
    run,                \* the invocations of GET /api/reminders/run
    response,           \* the last response of GET /api/reminders/run
    eventResponse,      \* the last response of /api/events and /api/events/[id]
    resubscribed,       \* history: ids of the rows an upsert reset after a delivery and no run has marked since
    delivered,          \* history: ids of the stored rows an adapter delivered to since their last upsert
    prev,               \* history: summary of the last finished run, kept while nothing is upserted or deleted since it started
    touched             \* history: an upsert or delete happened during the run in progress

vars == <<clock, env, events, subscriptions, pushSubscriptions, run, response,
          eventResponse, resubscribed, delivered, prev, touched>>

----------------------------------------------------------------------------
(* Values *)

Null == [null |-> TRUE]
Undefined == [undefined |-> TRUE]
Num(n) == [num |-> n]

IsNullish(a) == a = Null \/ a = Undefined

\* a ?? b
Coalesce(a, b) == IF IsNullish(a) THEN b ELSE a

\* ${x} of a template literal
Interpolate(a) == IF a = Undefined THEN "undefined" ELSE a.str

\* route.ts: the fallback of "customOffsetMinutes ?? reminderOffsetMinutes ?? 60"
DefaultOffsetMinutes == 60

\* route.ts: "offset * 60000"
MsPerMinute == 60000

Min(S) == CHOOSE n \in S : \A m \in S : n <= m

----------------------------------------------------------------------------
(* Bounds and input domains *)

\* number of half-hour steps the clock of Spec can take after 08:00
MaxTicks == 2

EightAM == 480 * MsPerMinute
NineAM == 540 * MsPerMinute
TenAM == 600 * MsPerMinute
HalfHour == 30 * MsPerMinute

\* the instants at which the clock of Spec is observed
CoarseInstants == {EightAM + k * HalfHour : k \in 0..MaxTicks}

EventIds == {"e1"}
Emails == {"a@x"}
Endpoints == {"https://push/p"}

\* customOffsetMinutes of the request bodies of Spec
CustomInputs == {Undefined, Num(30)}

\* the event table of Spec: an event at 09:00 without a default offset
SpecEvents ==
    { [id |-> "e1", start |-> NineAM, end |-> TenAM, reminderOffsetMinutes |-> Null] }

Secret == "s3cret"

\* the Authorization headers a caller presents
AuthHeaders == {Null, [header |-> "Bearer " \o Secret], [header |-> "Bearer wrong"],
                [header |-> Secret]}

\* process.env: a secret is a string or Undefined
GoodEnv == [CRON_SECRET |-> [str |-> Secret], SENDGRID_API_KEY |-> [str |-> "sg"],
            REMINDER_FROM_EMAIL |-> [str |-> "from@x"],
            NEXT_PUBLIC_VAPID_PUBLIC_KEY |-> [str |-> "pub"],
            VAPID_PRIVATE_KEY |-> [str |-> "priv"],
            ADMIN_TOKEN |-> [str |-> "adm1n"]]

SpecEnvs == {GoodEnv}

EnvKeys == {"CRON_SECRET", "SENDGRID_API_KEY", "REMINDER_FROM_EMAIL",
            "NEXT_PUBLIC_VAPID_PUBLIC_KEY", "VAPID_PRIVATE_KEY"}

\* the environments of SpecGate: any of the five variables unset, or one of
\* the three the trigger requires set to the empty string
GateEnvs ==
    {[k \in DOMAIN GoodEnv |-> IF k \in unset THEN Undefined ELSE GoodEnv[k]] :
        unset \in SUBSET EnvKeys}
    \cup {[GoodEnv EXCEPT ![k] = [str |-> ""]] :
            k \in {"CRON_SECRET", "SENDGRID_API_KEY", "REMINDER_FROM_EMAIL"}}

\* the instants at which the clock of SpecDue is observed: the half hours from
\* 07:00 to 09:30, the millisecond before each, and 07:59:59
DueInstants ==
    UNION {{m * MsPerMinute - 1, m * MsPerMinute} : m \in {420, 480, 510, 540, 570}}
        \cup {EightAM - 1000}

\* reminderOffsetMinutes of the event, customOffsetMinutes of the rows of SpecDue
DueEventOffsets == {Null, Num(120), Num(0), Num(-30)}
DueCustomOffsets == {Null, Num(30), Num(0), Num(-30)}

\* the event table of SpecOrphan: two events at 09:00
OrphanEventIds == {"e1", "e2"}
OrphanEvents ==
    {[id |-> id, start |-> NineAM, end |-> TenAM, reminderOffsetMinutes |-> Null] :
        id \in OrphanEventIds}

\* the Authorization headers an admin request presents
AdminHeaders == {Null, [header |-> "Bearer adm1n"], [header |-> "Bearer " \o Secret]}

\* the headers of SpecAdmin: also the token without its scheme
AdminTryHeaders == AdminHeaders \cup {[header |-> "adm1n"]}

\* the environments of SpecAdmin: ADMIN_TOKEN set, unset, empty
AdminEnvs ==
    {GoodEnv, [GoodEnv EXCEPT !.ADMIN_TOKEN = Undefined],
     [GoodEnv EXCEPT !.ADMIN_TOKEN = [str |-> ""]]}

\* the request bodies of POST /api/events and PUT /api/events/[id]: complete
\* ones, with end before, at and after start, and ones that lack a field
BodyOf(id, st, en, off) ==
    [id |-> [str |-> id], title |-> [str |-> "T"], start |-> [iso |-> st],
     end |-> [iso |-> en], category |-> [str |-> "practice"],
     description |-> [str |-> "D"],
     location |-> [label |-> "Hall", isOnline |-> FALSE],
     reminderOffsetMinutes |-> off]
FullBodies ==
    {BodyOf("e1", NineAM, TenAM, Undefined), BodyOf("e1", NineAM, TenAM, Num(120)),
     BodyOf("e1", TenAM, NineAM, Undefined), BodyOf("e1", NineAM, NineAM, Undefined),
     BodyOf("weekly-practice", NineAM, TenAM, Undefined),
     BodyOf("weekly-practice", TenAM, NineAM, Undefined)}
RequiredFields == {"id", "title", "start", "end", "category", "description", "location"}
AdminBodies ==
    FullBodies
    \cup {[BodyOf("e1", NineAM, TenAM, Undefined) EXCEPT ![k] = Undefined] :
            k \in {"id", "start", "location"}}
    \cup {[BodyOf("e1", NineAM, TenAM, Undefined) EXCEPT !.title = [str |-> ""]]}

RunIds == {1, 2}

\* Spec runs the dispatcher one invocation at a time
SeqRunIds == {1}

----------------------------------------------------------------------------
(* The tables *)

\* !x of JavaScript for a string that may be undefined
Falsy(a) == IsNullish(a) \/ a = [str |-> ""]

HasEvent(id) == \E e \in events : e.id = id

\* prisma.event.findUnique({ where: { id } })
FindEvent(id) == CHOOSE e \in events : e.id = id

\* schema defaults of a created subscription row
SubscriptionDefaults == [notified |-> FALSE, notifiedAt |-> Null]

TaskIds(tasks) == DOMAIN tasks

\* the ids of a table that are still referred to somewhere
UsedEmailIds ==
    {s.id : s \in subscriptions}
        \cup UNION {TaskIds(run[r].email) : r \in RunIds}
        \cup (IF prev = Null THEN {} ELSE prev.emailDelivered \cup prev.emailFailed)

UsedPushIds ==
    {s.id : s \in pushSubscriptions}
        \cup UNION {TaskIds(run[r].push) : r \in RunIds}
        \cup (IF prev = Null THEN {} ELSE prev.pushDelivered \cup prev.pushFailed)

\* the id of a new row: an id no row has and nothing remembers; it is written
\* <<identity, eventId, n>> with the least n that makes it new
FreshId(identity, eventId, used) ==
    <<identity, eventId,
      Min({n \in 0..Cardinality(used) : <<identity, eventId, n>> \notin used})>>

\* include: { event: true }
\* a row whose event is gone comes back with event null
WithEvent(sub) ==
    [event |-> IF HasEvent(sub.eventId) THEN FindEvent(sub.eventId) ELSE Null] @@ sub

\* a load that gives up on the rows whose delivery failed in the last run
FindPending_onceOnly(table) ==
    {WithEvent(s) : s \in {t \in table :
        /\ ~t.notified
        /\ prev # Null => t.id \notin prev.emailFailed \cup prev.pushFailed}}

\* a load that leaves out the rows another invocation is working on
FindPending_unclaimed(table) ==
    {WithEvent(s) : s \in {t \in table :
        /\ ~t.notified
        /\ \A r \in DOMAIN run : t.id \notin DOMAIN run[r].email \cup DOMAIN run[r].push}}

\* prisma.subscription.findMany({ where: { notified: false }, include: { event: true } })
FindPending(table) == {WithEvent(s) : s \in {t \in table : ~t.notified}}

----------------------------------------------------------------------------
(* eventMapper.ts *)

toDebateEvent(event) ==
    [id |-> event.id,
     start |-> [iso |-> event.start],
     end |-> [iso |-> event.end],
     reminderOffsetMinutes |-> Coalesce(event.reminderOffsetMinutes, Undefined)]

----------------------------------------------------------------------------
(* GET /api/reminders/run: the due filters and the tasks *)

\* due filter: sub.customOffsetMinutes ?? event.reminderOffsetMinutes ?? 60
DueOffset(sub) ==
    Coalesce(Coalesce(sub.customOffsetMinutes, sub.event.reminderOffsetMinutes),
             Num(DefaultOffsetMinutes)).num

\* the window without its end: due from reminderAt on
EmailIsDue_noEnd(now, sub) ==
    LET event == sub.event
        offset == DueOffset(sub)
        reminderAt == event.start - offset * MsPerMinute
    IN  now >= reminderAt

\* the window closed on the right
EmailIsDue_closed(now, sub) ==
    LET event == sub.event
        offset == DueOffset(sub)
        reminderAt == event.start - offset * MsPerMinute
    IN  now >= reminderAt /\ now <= event.start

EmailIsDue(now, sub) ==
    LET event == sub.event
        offset == DueOffset(sub)
        reminderAt == event.start - offset * MsPerMinute
    IN  now >= reminderAt /\ now < event.start

\* pushDue filter: the same expression, written a second time
PushDueOffset(sub) ==
    Coalesce(Coalesce(sub.customOffsetMinutes, sub.event.reminderOffsetMinutes),
             Num(DefaultOffsetMinutes)).num

\* the window open on the left
PushIsDue_open(now, sub) ==
    LET event == sub.event
        offset == PushDueOffset(sub)
        reminderAt == event.start - offset * MsPerMinute
    IN  now > reminderAt /\ now < event.start

PushIsDue(now, sub) ==
    LET event == sub.event
        offset == PushDueOffset(sub)
        reminderAt == event.start - offset * MsPerMinute
    IN  now >= reminderAt /\ now < event.start

\* the event default taken before the override
MessageOffset_eventFirst(sub) ==
    LET event == toDebateEvent(sub.event)
    IN  Coalesce(Coalesce(event.reminderOffsetMinutes, sub.customOffsetMinutes),
                 Num(DefaultOffsetMinutes)).num

\* due.map: the offset handed to buildMessage, read from toDebateEvent(sub.event)
MessageOffset(sub) ==
    LET event == toDebateEvent(sub.event)
    IN  Coalesce(Coalesce(sub.customOffsetMinutes, event.reminderOffsetMinutes),
                 Num(DefaultOffsetMinutes)).num

\* pushDue.map: the offset of the push body
PushMessageOffset(sub) ==
    LET event == toDebateEvent(sub.event)
    IN  Coalesce(Coalesce(sub.customOffsetMinutes, event.reminderOffsetMinutes),
                 Num(DefaultOffsetMinutes)).num

\* Math.round(n / 60) of an integer n: halves go up
RoundHours(n) == (n + 30) \div 60

\* buildMessage: "~${Math.round(offsetMinutes / 60) || offsetMinutes}
\* ${offsetMinutes >= 60 ? "hours" : "minutes"}"; 0 is falsy
EmailLeadTime(offsetMinutes) ==
    [amount |-> IF RoundHours(offsetMinutes) # 0 THEN RoundHours(offsetMinutes)
                ELSE offsetMinutes,
     unit |-> IF offsetMinutes >= 60 THEN "hours" ELSE "minutes"]

\* push body: "~${offset >= 60 ? Math.round(offset / 60) + "h" : offset + "m"}"
PushLeadTime(offset) ==
    IF offset >= 60 THEN [amount |-> RoundHours(offset), unit |-> "h"]
    ELSE [amount |-> offset, unit |-> "m"]

\* the task of one due subscription: the closure of due.map / pushDue.map;
\* dueOffset remembers the offset its filter used, lead is the lead time its
\* message states
EmailTask(sub) ==
    [sub |-> sub, dueOffset |-> DueOffset(sub), offset |-> MessageOffset(sub),
     lead |-> EmailLeadTime(MessageOffset(sub)),
     state |-> "send", adapter |-> "pending"]

PushTask(sub) ==
    [sub |-> sub, dueOffset |-> PushDueOffset(sub), offset |-> PushMessageOffset(sub),
     lead |-> PushLeadTime(PushMessageOffset(sub)),
     state |-> "send", adapter |-> "pending"]

EmailTasksOf(due) == [i \in {s.id : s \in due} |-> EmailTask(CHOOSE s \in due : s.id = i)]
PushTasksOf(due) == [i \in {s.id : s \in due} |-> PushTask(CHOOSE s \in due : s.id = i)]

IdleRun == [pc |-> "idle", now |-> 0, email |-> <<>>, push |-> <<>>]

Settled(tasks) == \A i \in DOMAIN tasks : tasks[i].state \in {"sent", "failed"}

\* "failed" counted from the adapter outcome alone
CountState_adapter(tasks, st) ==
    Cardinality({i \in DOMAIN tasks :
        IF st = "failed" THEN tasks[i].adapter = "error" ELSE tasks[i].state = st})

CountState(tasks, st) == Cardinality({i \in DOMAIN tasks : tasks[i].state = st})

Active(r) == run[r].pc \in {"email", "push"}

\* what a finished run leaves for the comparison with the next one
Summary(r) ==
    [now |-> run[r].now,
     emailDelivered |-> {i \in DOMAIN run[r].email : run[r].email[i].adapter = "ok"},
     emailMarked |-> {i \in DOMAIN run[r].email : run[r].email[i].state = "sent"},
     emailFailed |-> {i \in DOMAIN run[r].email : run[r].email[i].adapter = "error"},
     pushDelivered |-> {i \in DOMAIN run[r].push : run[r].push[i].adapter = "ok"},
     pushMarked |-> {i \in DOMAIN run[r].push : run[r].push[i].state = "sent"},
     pushFailed |-> {i \in DOMAIN run[r].push : run[r].push[i].adapter = "error"}]

----------------------------------------------------------------------------
(* Initial states *)

InitCommon ==
    /\ subscriptions = {}
    /\ pushSubscriptions = {}
    /\ run = [r \in RunIds |-> IdleRun]
    /\ response = Null
    /\ resubscribed = [email |-> {}, push |-> {}]
    /\ delivered = [email |-> {}, push |-> {}]
    /\ prev = Null
    /\ touched = FALSE

\* Spec: the event table holds one event, no one has subscribed
Init ==
    /\ clock = EightAM
    /\ env \in SpecEnvs
    /\ eventResponse = Null
    /\ events = SpecEvents
    /\ InitCommon

\* SpecDue: the tables as requests have left them, nothing notified yet
InitDue ==
    /\ clock \in DueInstants
    /\ env = GoodEnv
    /\ eventResponse = Null
    /\ \E o \in DueEventOffsets :
          events = {[id |-> "e1", start |-> NineAM, end |-> TenAM,
                     reminderOffsetMinutes |-> o]}
    /\ \E rows \in SUBSET {[id |-> <<e, "e1", 0>>, email |-> e, eventId |-> "e1",
                             customOffsetMinutes |-> c] @@ SubscriptionDefaults :
                            e \in Emails, c \in DueCustomOffsets} :
          /\ \A a, b \in rows : a.email = b.email => a = b
          /\ subscriptions = rows
    /\ \E rows \in SUBSET {[id |-> <<e, "e1", 0>>, endpoint |-> e, eventId |-> "e1",
                             customOffsetMinutes |-> c] @@ SubscriptionDefaults :
                            e \in Endpoints, c \in DueCustomOffsets} :
          /\ \A a, b \in rows : a.endpoint = b.endpoint => a = b
          /\ pushSubscriptions = rows
    /\ run = [r \in RunIds |-> IdleRun]
    /\ response = Null
    /\ resubscribed = [email |-> {}, push |-> {}]
    /\ delivered = [email |-> {}, push |-> {}]
    /\ prev = Null
    /\ touched = FALSE

\* SpecOrphan: two events, an email row on the first and a push row on the second
InitOrphan ==
    /\ clock = EightAM
    /\ env = GoodEnv
    /\ eventResponse = Null
    /\ events = OrphanEvents
    /\ subscriptions = {[id |-> <<"a@x", "e1", 0>>, email |-> "a@x", eventId |-> "e1",
                         customOffsetMinutes |-> Null] @@ SubscriptionDefaults}
    /\ pushSubscriptions =
          {[id |-> <<"https://push/p", "e2", 0>>, endpoint |-> "https://push/p",
            eventId |-> "e2", customOffsetMinutes |-> Null] @@ SubscriptionDefaults}
    /\ run = [r \in RunIds |-> IdleRun]
    /\ response = Null
    /\ resubscribed = [email |-> {}, push |-> {}]
    /\ delivered = [email |-> {}, push |-> {}]
    /\ prev = Null
    /\ touched = FALSE

\* SpecGate: any environment; an email row and a push row wait for 08:00
InitGate ==
    /\ clock = EightAM
    /\ env \in GateEnvs
    /\ eventResponse = Null
    /\ events = SpecEvents
    /\ subscriptions = {[id |-> <<"a@x", "e1", 0>>, email |-> "a@x", eventId |-> "e1",
                         customOffsetMinutes |-> Null] @@ SubscriptionDefaults}
    /\ pushSubscriptions =
          {[id |-> <<"https://push/p", "e1", 0>>, endpoint |-> "https://push/p",
            eventId |-> "e1", customOffsetMinutes |-> Null] @@ SubscriptionDefaults}
    /\ run = [r \in RunIds |-> IdleRun]
    /\ response = Null
    /\ resubscribed = [email |-> {}, push |-> {}]
    /\ delivered = [email |-> {}, push |-> {}]
    /\ prev = Null
    /\ touched = FALSE

\* SpecOverlap: an email row and a push row wait for 08:00
InitOverlap ==
    /\ clock = EightAM
    /\ env = GoodEnv
    /\ eventResponse = Null
    /\ events = SpecEvents
    /\ subscriptions = {[id |-> <<"a@x", "e1", 0>>, email |-> "a@x", eventId |-> "e1",
                         customOffsetMinutes |-> Null] @@ SubscriptionDefaults}
    /\ pushSubscriptions =
          {[id |-> <<"https://push/p", "e1", 0>>, endpoint |-> "https://push/p",
            eventId |-> "e1", customOffsetMinutes |-> Null] @@ SubscriptionDefaults}
    /\ run = [r \in RunIds |-> IdleRun]
    /\ response = Null
    /\ resubscribed = [email |-> {}, push |-> {}]
    /\ delivered = [email |-> {}, push |-> {}]
    /\ prev = Null
    /\ touched = FALSE

----------------------------------------------------------------------------
(* The clock *)

Tick(instants) ==
    /\ \E t \in instants : t > clock /\ clock' = t
    /\ UNCHANGED <<env, eventResponse, events, subscriptions, pushSubscriptions, run, response,
                   resubscribed, delivered, prev, touched>>

----------------------------------------------------------------------------
(* POST and DELETE /api/subscriptions *)

\* a create where an upsert was meant
UpsertEmail_creates(table, email, eventId, custom) ==
    table \cup {[id |-> FreshId(email, eventId, UsedEmailIds), email |-> email,
                 eventId |-> eventId, customOffsetMinutes |-> Coalesce(custom, Null)]
                @@ SubscriptionDefaults}

\* an update branch that leaves the flag alone
UpsertEmail_keepsFlag(table, email, eventId, custom) ==
    IF \E s \in table : s.email = email /\ s.eventId = eventId
    THEN {IF s.email = email /\ s.eventId = eventId
          THEN [s EXCEPT !.customOffsetMinutes = Coalesce(custom, Null)]
          ELSE s : s \in table}
    ELSE table \cup {[id |-> FreshId(email, eventId, UsedEmailIds), email |-> email,
                      eventId |-> eventId, customOffsetMinutes |-> Coalesce(custom, Null)]
                     @@ SubscriptionDefaults}

\* prisma.subscription.upsert on the key (email, eventId)
UpsertEmail(table, email, eventId, custom) ==
    IF \E s \in table : s.email = email /\ s.eventId = eventId
    THEN {IF s.email = email /\ s.eventId = eventId
          THEN [s EXCEPT !.customOffsetMinutes = Coalesce(custom, Null),
                         !.notified = FALSE, !.notifiedAt = Null]
          ELSE s : s \in table}
    ELSE table \cup {[id |-> FreshId(email, eventId, UsedEmailIds), email |-> email, eventId |-> eventId,
                      customOffsetMinutes |-> Coalesce(custom, Null)]
                     @@ SubscriptionDefaults}

\* an update branch that resets the flag and leaves the timestamp
UpsertPush_keepsStamp(table, endpoint, eventId, custom) ==
    IF \E s \in table : s.endpoint = endpoint /\ s.eventId = eventId
    THEN {IF s.endpoint = endpoint /\ s.eventId = eventId
          THEN [s EXCEPT !.customOffsetMinutes = Coalesce(custom, Null),
                         !.notified = FALSE]
          ELSE s : s \in table}
    ELSE table \cup {[id |-> FreshId(endpoint, eventId, UsedPushIds), endpoint |-> endpoint,
                      eventId |-> eventId, customOffsetMinutes |-> Coalesce(custom, Null)]
                     @@ SubscriptionDefaults}

\* prisma.pushSubscription.upsert on the key (endpoint, eventId)
UpsertPush(table, endpoint, eventId, custom) ==
    IF \E s \in table : s.endpoint = endpoint /\ s.eventId = eventId
    THEN {IF s.endpoint = endpoint /\ s.eventId = eventId
          THEN [s EXCEPT !.customOffsetMinutes = Coalesce(custom, Null),
                         !.notified = FALSE, !.notifiedAt = Null]
          ELSE s : s \in table}
    ELSE table \cup {[id |-> FreshId(endpoint, eventId, UsedPushIds), endpoint |-> endpoint, eventId |-> eventId,
                      customOffsetMinutes |-> Coalesce(custom, Null)]
                     @@ SubscriptionDefaults}

\* if (body.email), if (!body.eventId): a string field of a request body is ""
\* when it is absent or empty, and both are falsy
Truthy(str) == str # ""

\* the ids of the rows that go from notified to pending
WasReset(table, after) ==
    {s.id : s \in {t \in table : t.notified /\ \E u \in after : u.id = t.id /\ ~u.notified}}

\* POST: body { email?, eventId, customOffsetMinutes?, pushSubscription? }
PostSubscription(email, endpoint, eventId, custom) ==
    /\ Truthy(eventId)
    /\ HasEvent(eventId)
    /\ subscriptions' =
          IF ~Truthy(email) THEN subscriptions
          ELSE UpsertEmail(subscriptions, email, eventId, custom)
    /\ pushSubscriptions' =
          IF ~Truthy(endpoint) THEN pushSubscriptions
          ELSE UpsertPush(pushSubscriptions, endpoint, eventId, custom)
    /\ resubscribed' =
          [email |-> resubscribed.email \cup WasReset(subscriptions, subscriptions'),
           push |-> resubscribed.push \cup WasReset(pushSubscriptions, pushSubscriptions')]
    /\ delivered' =
          [email |-> delivered.email \
                        {s.id : s \in {t \in subscriptions :
                                          t.email = email /\ t.eventId = eventId}},
           push |-> delivered.push \
                       {s.id : s \in {t \in pushSubscriptions :
                                         t.endpoint = endpoint /\ t.eventId = eventId}}]
    /\ prev' = Null
    /\ touched' = \E r \in RunIds : Active(r)
    /\ response' = Null
    /\ UNCHANGED <<clock, env, eventResponse, events, run>>

\* DELETE: body { email?, eventId, pushSubscription? }
DeleteSubscription(email, endpoint, eventId) ==
    /\ Truthy(eventId)
    /\ subscriptions' =
          IF ~Truthy(email) THEN subscriptions
          ELSE {s \in subscriptions : ~(s.email = email /\ s.eventId = eventId)}
    /\ pushSubscriptions' =
          IF ~Truthy(endpoint) THEN pushSubscriptions
          ELSE {s \in pushSubscriptions : ~(s.endpoint = endpoint /\ s.eventId = eventId)}
    /\ resubscribed' =
          [email |-> resubscribed.email \cap {s.id : s \in subscriptions'},
           push |-> resubscribed.push \cap {s.id : s \in pushSubscriptions'}]
    /\ delivered' =
          [email |-> delivered.email \cap {s.id : s \in subscriptions'},
           push |-> delivered.push \cap {s.id : s \in pushSubscriptions'}]
    /\ prev' = Null
    /\ touched' = \E r \in RunIds : Active(r)
    /\ response' = Null
    /\ UNCHANGED <<clock, env, eventResponse, events, run>>

----------------------------------------------------------------------------
(* DELETE /api/events/[id] *)

\* the event table after prisma.event.delete: the row is gone and the
\* subscriptions that refer to it stay behind
EventDeleted(id) == {e \in events : e.id # id}

\* if (!adminToken)
AdminConfigMissing == Falsy(env.ADMIN_TOKEN)

\* only a missing header is turned away
AdminUnauthorized_anyHeader(auth) == auth = Null

\* !authHeader || authHeader !== `Bearer ${adminToken}`, and !isAuthorized(req)
AdminUnauthorized(auth) ==
    \/ auth = Null
    \/ auth # [header |-> "Bearer " \o Interpolate(env.ADMIN_TOKEN)]

\* the two early returns the three admin handlers share
AdminRejection(route, auth) ==
    IF AdminConfigMissing
    THEN [route |-> route, status |-> 500, error |-> "Server missing ADMIN_TOKEN"]
    ELSE IF AdminUnauthorized(auth)
    THEN [route |-> route, status |-> 401, error |-> "Unauthorized"]
    ELSE Null

\* DELETE: 500 without ADMIN_TOKEN, 401 without its bearer, then the delete;
\* a delete of an id that no event has throws and is answered 500
DeleteEvent(id, auth) ==
    /\ eventResponse' =
          IF AdminRejection("DELETE", auth) # Null THEN AdminRejection("DELETE", auth)
          ELSE IF ~HasEvent(id)
          THEN [route |-> "DELETE", status |-> 500, error |-> "Delete failed"]
          ELSE [route |-> "DELETE", status |-> 200, ok |-> TRUE]
    /\ events' =
          IF AdminRejection("DELETE", auth) = Null /\ HasEvent(id)
          THEN EventDeleted(id) ELSE events
    /\ UNCHANGED <<clock, env, subscriptions, pushSubscriptions, run, response,
                   resubscribed, delivered, prev, touched>>

----------------------------------------------------------------------------
(* POST /api/events, PUT /api/events/[id] *)

\* the row prisma writes: new Date(body.start), new Date(body.end),
\* body.reminderOffsetMinutes ?? null
EventRow(id, body) ==
    [id |-> id, start |-> body.start.iso, end |-> body.end.iso,
     reminderOffsetMinutes |-> Coalesce(body.reminderOffsetMinutes, Null)]

\* POST: 500, 401, 400 on a missing field, then prisma.event.create, which
\* throws outside any try when the id is taken
CreateEvent(body, auth) ==
    LET missing == \E k \in RequiredFields : Falsy(body[k]) IN
    /\ eventResponse' =
          IF AdminRejection("POST", auth) # Null THEN AdminRejection("POST", auth)
          ELSE IF missing
          THEN [route |-> "POST", status |-> 400, error |-> "Missing required fields"]
          ELSE IF HasEvent(body.id.str)
          THEN [route |-> "POST", status |-> 500, error |-> "PrismaClientKnownRequestError"]
          ELSE [route |-> "POST", status |-> 201,
                body |-> toDebateEvent(EventRow(body.id.str, body))]
    /\ events' =
          IF AdminRejection("POST", auth) = Null /\ ~missing /\ ~HasEvent(body.id.str)
          THEN events \cup {EventRow(body.id.str, body)} ELSE events
    /\ UNCHANGED <<clock, env, subscriptions, pushSubscriptions, run, response,
                   resubscribed, delivered, prev, touched>>

\* the subscriptions forget that they were notified
UpdateEvent_resetsFlags(id) ==
    {[s EXCEPT !.notified = IF s.eventId = id THEN FALSE ELSE s.notified] :
        s \in subscriptions}

\* prisma.event.update touches the event table alone
UpdateEvent_subscriptions(id) == subscriptions

\* PUT: 500, 401, 400 on a missing field (the id comes from the path), then
\* prisma.event.update inside try: 500 "Update failed" when no event has the id
UpdateEvent(id, body, auth) ==
    LET missing == \E k \in RequiredFields \ {"id"} : Falsy(body[k]) IN
    /\ eventResponse' =
          IF AdminRejection("PUT", auth) # Null THEN AdminRejection("PUT", auth)
          ELSE IF missing
          THEN [route |-> "PUT", status |-> 400, error |-> "Missing required fields"]
          ELSE IF ~HasEvent(id)
          THEN [route |-> "PUT", status |-> 500, error |-> "Update failed"]
          ELSE [route |-> "PUT", status |-> 200, body |-> toDebateEvent(EventRow(id, body))]
    /\ events' =
          IF AdminRejection("PUT", auth) = Null /\ ~missing /\ HasEvent(id)
          THEN EventDeleted(id) \cup {EventRow(id, body)} ELSE events
    /\ subscriptions' =
          IF AdminRejection("PUT", auth) = Null /\ ~missing /\ HasEvent(id)
          THEN UpdateEvent_subscriptions(id) ELSE subscriptions
    /\ UNCHANGED <<clock, env, pushSubscriptions, run, response,
                   resubscribed, delivered, prev, touched>>

----------------------------------------------------------------------------
(* GET /api/events *)

\* minutes past 2025-01-31T00:00:00 as milliseconds; the events of the other
\* specifications are on that day
At(day, hour, minute) == ((day * 24 + hour) * 60 + minute) * MsPerMinute

\* data/events.ts as ensureSeeded maps it: ev.reminderOffsetMinutes ?? null
debateEvents ==
    {[id |-> "nsu-pre-worlds", start |-> At(8, 9, 0), end |-> At(9, 18, 0),
      reminderOffsetMinutes |-> Num(24 * 60)],
     [id |-> "weekly-practice", start |-> At(0, 19, 0), end |-> At(0, 21, 0),
      reminderOffsetMinutes |-> Num(60)],
     [id |-> "equity-workshop", start |-> At(4, 17, 0), end |-> At(4, 19, 0),
      reminderOffsetMinutes |-> Num(6 * 60)],
     [id |-> "freshers-selection", start |-> At(11, 10, 30), end |-> At(11, 14, 0),
      reminderOffsetMinutes |-> Num(180)],
     [id |-> "regional-open", start |-> At(6, 18, 0), end |-> At(6, 20, 0),
      reminderOffsetMinutes |-> Num(90)],
     [id |-> "judge-recruit", start |-> At(2, 16, 0), end |-> At(2, 17, 30),
      reminderOffsetMinutes |-> Num(24 * 60)]}

\* seeds whenever a bundled event is missing
SeedNeeded_anyMissing == \E e \in debateEvents : ~HasEvent(e.id)

\* const count = await prisma.event.count(); if (count > 0) return;
SeedNeeded == ~(Cardinality(events) > 0)

\* the event table after ensureSeeded
ensureSeeded ==
    IF SeedNeeded THEN events \cup {e \in debateEvents : ~HasEvent(e.id)} ELSE events

\* findMany({ orderBy: { start: "asc" } }): the orders the database may
\* return, rows with equal start in either order
RECURSIVE OrderedByStart(_)
OrderedByStart(rows) ==
    IF rows = {} THEN {<<>>}
    ELSE UNION {{<<e>> \o rest : rest \in OrderedByStart(rows \ {e})} :
                   e \in {m \in rows : \A x \in rows : m.start <= x.start}}

\* GET: seed, read in start order, map
ListEvents ==
    /\ events' = ensureSeeded
    /\ \E list \in OrderedByStart(ensureSeeded) :
          eventResponse' = [route |-> "GET", status |-> 200,
                            body |-> [i \in DOMAIN list |-> toDebateEvent(list[i])]]
    /\ UNCHANGED <<clock, env, subscriptions, pushSubscriptions, run, response,
                   resubscribed, delivered, prev, touched>>

----------------------------------------------------------------------------
(* GET /api/reminders/run *)

\* the sender address is not looked at
ConfigMissing_noSender ==
    \/ Falsy(env.CRON_SECRET)
    \/ Falsy(env.SENDGRID_API_KEY)

ConfigMissing ==
    \/ Falsy(env.CRON_SECRET)
    \/ Falsy(env.SENDGRID_API_KEY)
    \/ Falsy(env.REMINDER_FROM_EMAIL)

\* any header passes
Unauthorized_anyHeader(auth) == auth = Null

Unauthorized(auth) ==
    \/ auth = Null
    \/ auth # [header |-> "Bearer " \o Interpolate(env.CRON_SECRET)]

\* the early returns: 500 before 401, nothing is read
RunRejected(r, auth) ==
    /\ run[r].pc = "idle"
    /\ ConfigMissing \/ Unauthorized(auth)
    /\ response' = [status |-> IF ConfigMissing THEN 500 ELSE 401]
    /\ UNCHANGED <<clock, env, eventResponse, events, subscriptions, pushSubscriptions, run,
                   resubscribed, delivered, prev, touched>>

\* a loaded row has event null: "event.reminderOffsetMinutes" and
\* "event.start" of the filters throw a TypeError
FilterThrows ==
    \/ \E sub \in FindPending(subscriptions) : sub.event = Null
    \/ \E sub \in FindPending(pushSubscriptions) : sub.event = Null

\* the TypeError leaves GET uncaught: the framework answers 500, nothing is sent
RunThrows(r, auth) ==
    /\ run[r].pc = "idle"
    /\ ~ConfigMissing
    /\ ~Unauthorized(auth)
    /\ FilterThrows
    /\ response' = [status |-> 500, error |-> "TypeError"]
    /\ UNCHANGED <<clock, env, eventResponse, events, subscriptions, pushSubscriptions, run,
                   resubscribed, delivered, prev, touched>>

\* now, the two findMany and the two filters; the email sends are issued
StartRun(r, auth) ==
    /\ run[r].pc = "idle"
    /\ ~ConfigMissing
    /\ ~Unauthorized(auth)
    /\ ~FilterThrows
    /\ LET now == clock
           loaded == FindPending(subscriptions)
           pushLoaded == FindPending(pushSubscriptions)
           due == {sub \in loaded : EmailIsDue(now, sub)}
           pushDue == {sub \in pushLoaded : PushIsDue(now, sub)}
       IN  run' = [run EXCEPT ![r] =
                      [pc |-> "email", now |-> now,
                       email |-> EmailTasksOf(due), push |-> PushTasksOf(pushDue)]]
    /\ touched' = FALSE
    /\ response' = Null
    /\ UNCHANGED <<clock, env, eventResponse, events, subscriptions, pushSubscriptions, resubscribed,
                   delivered, prev>>

\* the flag written whatever the adapter answered
EmailSend_marksAnyway(r, i, ok) ==
    /\ run[r].pc = "email"
    /\ i \in DOMAIN run[r].email
    /\ run[r].email[i].state = "send"
    /\ run' = [run EXCEPT ![r].email[i].state = IF ok THEN "update" ELSE "failed",
                          ![r].email[i].adapter = IF ok THEN "ok" ELSE "error"]
    /\ subscriptions' =
          IF ok THEN subscriptions
          ELSE {IF s.id = i
                THEN [s EXCEPT !.notified = TRUE, !.notifiedAt = Num(clock)]
                ELSE s : s \in subscriptions}
    /\ delivered' = IF ok /\ (\E s \in subscriptions : s.id = i)
                  THEN [delivered EXCEPT !.email = @ \cup {i}] ELSE delivered
    /\ UNCHANGED <<clock, env, eventResponse, events, pushSubscriptions, response, resubscribed,
                   prev, touched>>

\* await sgMail.send(msg) resolves or rejects
EmailSend(r, i, ok) ==
    /\ run[r].pc = "email"
    /\ i \in DOMAIN run[r].email
    /\ run[r].email[i].state = "send"
    /\ run' = [run EXCEPT ![r].email[i].state = IF ok THEN "update" ELSE "failed",
                          ![r].email[i].adapter = IF ok THEN "ok" ELSE "error"]
    /\ delivered' = IF ok /\ (\E s \in subscriptions : s.id = i)
                  THEN [delivered EXCEPT !.email = @ \cup {i}] ELSE delivered
    /\ UNCHANGED <<clock, env, eventResponse, events, subscriptions, pushSubscriptions, response,
                   resubscribed, prev, touched>>

\* an upsert where an update was meant: a row that is gone is written back
EmailUpdate_upserts(r, i, ok) ==
    /\ run[r].pc = "email"
    /\ i \in DOMAIN run[r].email
    /\ run[r].email[i].state = "update"
    /\ subscriptions' =
          IF ~ok THEN subscriptions
          ELSE IF \E s \in subscriptions : s.id = i
          THEN {IF s.id = i
                THEN [s EXCEPT !.notified = TRUE, !.notifiedAt = Num(clock)]
                ELSE s : s \in subscriptions}
          ELSE subscriptions \cup
                  {[id |-> i, email |-> run[r].email[i].sub.email,
                    eventId |-> run[r].email[i].sub.eventId,
                    customOffsetMinutes |-> run[r].email[i].sub.customOffsetMinutes,
                    notified |-> TRUE, notifiedAt |-> Num(clock)]}
    /\ run' = [run EXCEPT ![r].email[i].state = IF ok THEN "sent" ELSE "failed"]
    /\ resubscribed' = IF ok THEN [resubscribed EXCEPT !.email = @ \ {i}] ELSE resubscribed
    /\ UNCHANGED <<clock, env, eventResponse, events, pushSubscriptions, response,
                   delivered, prev, touched>>

\* await prisma.subscription.update({ where: { id }, data: { notified, notifiedAt } })
EmailUpdate(r, i, ok) ==
    /\ run[r].pc = "email"
    /\ i \in DOMAIN run[r].email
    /\ run[r].email[i].state = "update"
    /\ ok => \E s \in subscriptions : s.id = i
    /\ subscriptions' =
          IF ok
          THEN {IF s.id = i
                THEN [s EXCEPT !.notified = TRUE, !.notifiedAt = Num(clock)]
                ELSE s : s \in subscriptions}
          ELSE subscriptions
    /\ run' = [run EXCEPT ![r].email[i].state = IF ok THEN "sent" ELSE "failed"]
    /\ resubscribed' = IF ok THEN [resubscribed EXCEPT !.email = @ \ {i}] ELSE resubscribed
    /\ UNCHANGED <<clock, env, eventResponse, events, pushSubscriptions, response, delivered, prev, touched>>

\* await Promise.all(due.map(...)) is over: pushDue.map issues the push sends
StartPush(r) ==
    /\ run[r].pc = "email"
    /\ Settled(run[r].email)
    /\ run' = [run EXCEPT ![r].pc = "push"]
    /\ UNCHANGED <<clock, env, eventResponse, events, subscriptions, pushSubscriptions, response,
                   resubscribed, delivered, prev, touched>>

\* push.ts: ensureVapidConfigured throws without the key pair
VapidMissing == Falsy(env.NEXT_PUBLIC_VAPID_PUBLIC_KEY) \/ Falsy(env.VAPID_PRIVATE_KEY)

\* the flag written before the send is awaited
PushSend_marksFirst(r, i, ok) ==
    /\ run[r].pc = "push"
    /\ i \in DOMAIN run[r].push
    /\ run[r].push[i].state = "send"
    /\ ok => ~VapidMissing
    /\ run' = [run EXCEPT ![r].push[i].state = IF ok THEN "update" ELSE "failed",
                          ![r].push[i].adapter = IF ok THEN "ok" ELSE "error"]
    /\ pushSubscriptions' =
          {IF s.id = i THEN [s EXCEPT !.notified = TRUE, !.notifiedAt = Num(clock)]
           ELSE s : s \in pushSubscriptions}
    /\ delivered' = IF ok /\ (\E s \in pushSubscriptions : s.id = i)
                  THEN [delivered EXCEPT !.push = @ \cup {i}] ELSE delivered
    /\ UNCHANGED <<clock, env, eventResponse, events, subscriptions, response,
                   resubscribed, prev, touched>>

\* await sendPush(subscription, payload) resolves or rejects
PushSend(r, i, ok) ==
    /\ run[r].pc = "push"
    /\ i \in DOMAIN run[r].push
    /\ run[r].push[i].state = "send"
    /\ ok => ~VapidMissing
    /\ run' = [run EXCEPT ![r].push[i].state = IF ok THEN "update" ELSE "failed",
                          ![r].push[i].adapter = IF ok THEN "ok" ELSE "error"]
    /\ delivered' = IF ok /\ (\E s \in pushSubscriptions : s.id = i)
                  THEN [delivered EXCEPT !.push = @ \cup {i}] ELSE delivered
    /\ UNCHANGED <<clock, env, eventResponse, events, subscriptions, pushSubscriptions, response,
                   resubscribed, prev, touched>>

\* an update whose data also clears the override
PushUpdate_clearsOverride(r, i, ok) ==
    /\ run[r].pc = "push"
    /\ i \in DOMAIN run[r].push
    /\ run[r].push[i].state = "update"
    /\ ok => \E s \in pushSubscriptions : s.id = i
    /\ pushSubscriptions' =
          IF ok
          THEN {IF s.id = i
                THEN [s EXCEPT !.notified = TRUE, !.notifiedAt = Num(clock),
                               !.customOffsetMinutes = Null]
                ELSE s : s \in pushSubscriptions}
          ELSE pushSubscriptions
    /\ run' = [run EXCEPT ![r].push[i].state = IF ok THEN "sent" ELSE "failed"]
    /\ resubscribed' = IF ok THEN [resubscribed EXCEPT !.push = @ \ {i}] ELSE resubscribed
    /\ UNCHANGED <<clock, env, eventResponse, events, subscriptions, response, delivered, prev, touched>>

\* await prisma.pushSubscription.update({ where: { id }, data: { notified, notifiedAt } })
PushUpdate(r, i, ok) ==
    /\ run[r].pc = "push"
    /\ i \in DOMAIN run[r].push
    /\ run[r].push[i].state = "update"
    /\ ok => \E s \in pushSubscriptions : s.id = i
    /\ pushSubscriptions' =
          IF ok
          THEN {IF s.id = i
                THEN [s EXCEPT !.notified = TRUE, !.notifiedAt = Num(clock)]
                ELSE s : s \in pushSubscriptions}
          ELSE pushSubscriptions
    /\ run' = [run EXCEPT ![r].push[i].state = IF ok THEN "sent" ELSE "failed"]
    /\ resubscribed' = IF ok THEN [resubscribed EXCEPT !.push = @ \ {i}] ELSE resubscribed
    /\ UNCHANGED <<clock, env, eventResponse, events, subscriptions, response, delivered, prev, touched>>

\* return NextResponse.json({ processed, sent, failed })
Respond(r) ==
    /\ run[r].pc = "push"
    /\ Settled(run[r].push)
    /\ run' = [run EXCEPT ![r] = IdleRun]
    /\ prev' = IF touched THEN Null ELSE Summary(r)
    /\ touched' = FALSE
    /\ response' =
          [status |-> 200,
           processed |-> Cardinality(DOMAIN run[r].email) + Cardinality(DOMAIN run[r].push),
           sent |-> CountState(run[r].email, "sent") + CountState(run[r].push, "sent"),
           failed |-> CountState(run[r].email, "failed") + CountState(run[r].push, "failed")]
    /\ UNCHANGED <<clock, env, eventResponse, events, subscriptions, pushSubscriptions, resubscribed,
                   delivered>>

----------------------------------------------------------------------------
(* Specifications *)

SubscriptionRequest ==
    \E email \in Emails \cup {""}, endpoint \in Endpoints \cup {""},
       eventId \in EventIds \cup {"", "gone"} :
        \/ \E custom \in CustomInputs : PostSubscription(email, endpoint, eventId, custom)
        \/ DeleteSubscription(email, endpoint, eventId)

Dispatch(ids) ==
    \E r \in ids :
        \/ \E auth \in AuthHeaders : RunRejected(r, auth)
        \/ \E auth \in AuthHeaders : StartRun(r, auth)
        \/ \E i \in DOMAIN run[r].email, ok \in BOOLEAN : EmailSend(r, i, ok)
        \/ \E i \in DOMAIN run[r].email, ok \in BOOLEAN : EmailUpdate(r, i, ok)
        \/ StartPush(r)
        \/ \E i \in DOMAIN run[r].push, ok \in BOOLEAN : PushSend(r, i, ok)
        \/ \E i \in DOMAIN run[r].push, ok \in BOOLEAN : PushUpdate(r, i, ok)
        \/ Respond(r)

Next ==
    \/ Tick(CoarseInstants)
    \/ SubscriptionRequest
    \/ Dispatch(SeqRunIds)

Spec == Init /\ [][Next]_vars

\* the dispatcher alone, over tables that requests have filled
NextDue ==
    \/ Tick(DueInstants)
    \/ Dispatch(SeqRunIds)

SpecDue == InitDue /\ [][NextDue]_vars

\* event deletion under the dispatcher; no event of Spec and SpecDue is ever
\* deleted, so no run of theirs throws
NextOrphan ==
    \/ Tick(CoarseInstants)
    \/ \E id \in OrphanEventIds, auth \in AdminHeaders : DeleteEvent(id, auth)
    \/ \E r \in SeqRunIds, auth \in AuthHeaders : RunThrows(r, auth)
    \/ Dispatch(SeqRunIds)

SpecOrphan == InitOrphan /\ [][NextOrphan]_vars

\* the trigger alone, under every environment
NextGate ==
    \/ Tick(CoarseInstants)
    \/ Dispatch(SeqRunIds)

SpecGate == InitGate /\ [][NextGate]_vars

\* two invocations of the trigger at once: each await is a point where the
\* other proceeds
NextOverlap ==
    \/ Tick(CoarseInstants)
    \/ Dispatch(RunIds)

SpecOverlap == InitOverlap /\ [][NextOverlap]_vars

\* the event routes, one request at a time, from an empty event table, with
\* subscription requests from callers that present nothing
AdminEventIds == {e.id : e \in debateEvents} \cup {"e1"}
InitAdmin ==
    /\ clock = EightAM
    /\ env \in AdminEnvs
    /\ eventResponse = Null
    /\ events = {}
    /\ InitCommon

NextAdmin ==
    \/ \E body \in AdminBodies, auth \in AdminTryHeaders : CreateEvent(body, auth)
    \/ \E id \in {"e1", "gone"}, body \in AdminBodies, auth \in AdminTryHeaders :
          UpdateEvent(id, body, auth)
    \/ \E id \in AdminEventIds, auth \in AdminTryHeaders : DeleteEvent(id, auth)
    \/ ListEvents
    \/ PostSubscription("a@x", "", "weekly-practice", Undefined)
    \/ DeleteSubscription("a@x", "", "weekly-practice")

SpecAdmin == InitAdmin /\ [][NextAdmin]_vars

\* an admin reschedules the event under the dispatcher: the event keeps its
\* times, or moves to 10:00 with the default or a two-hour offset
RescheduleBodies ==
    {BodyOf("e1", NineAM, TenAM, Undefined), BodyOf("e1", TenAM, TenAM, Undefined),
     BodyOf("e1", TenAM, TenAM, Num(120))}

\* SpecReschedule: the event at 09:00 with an email row and a push row
InitReschedule == InitOverlap

NextReschedule ==
    \/ Tick(CoarseInstants)
    \/ \E body \in RescheduleBodies, auth \in AdminHeaders : UpdateEvent("e1", body, auth)
    \/ PostSubscription("a@x", "https://push/p", "e1", Undefined)
    \/ Dispatch(SeqRunIds)

SpecReschedule == InitReschedule /\ [][NextReschedule]_vars

TypeOK ==
    /\ clock \in Nat
    /\ \A s \in subscriptions : s.notified \in BOOLEAN
    /\ \A r \in RunIds : run[r].pc \in {"idle", "email", "push"}

----------------------------------------------------------------------------
(* The claims in their own words *)

\* override, else event default, else 60 minutes; a stored value is absent
\* when it is Null
ResolvedOffset(custom, eventOffset) ==
    IF custom # Null THEN custom.num
    ELSE IF eventOffset # Null THEN eventOffset.num
    ELSE 60

\* the effective offset of a stored row, read from the tables
RowOffset(row) ==
    ResolvedOffset(row.customOffsetMinutes, FindEvent(row.eventId).reminderOffsetMinutes)

\* reminderAt <= now < start, with reminderAt = start - offset minutes
InWindow(now, start, offsetMinutes) ==
    /\ start - offsetMinutes * 60 * 1000 <= now
    /\ now < start

RowInWindow(now, row) == InWindow(now, FindEvent(row.eventId).start, RowOffset(row))

\* the step in which run r reads the clock, loads the pending rows and filters them
Starts(r) == run[r].pc = "idle" /\ run'[r].pc = "email"

\* the step in which run r returns its aggregate
Returns(r) == run[r].pc = "push" /\ run'[r].pc = "idle"

Pending(table) == {s \in table : ~s.notified}

----------------------------------------------------------------------------
(* C1 - C10 *)

\* C1: a run selects, among the pending rows of either table, exactly those
\* with reminderAt <= now < start, reminderAt being start minus the effective
\* offset in minutes; the email filter and the push filter follow the same rule
C1_DueIffInWindow ==
    [][\A r \in RunIds : Starts(r) =>
          /\ DOMAIN run'[r].email =
                {s.id : s \in {t \in Pending(subscriptions) : RowInWindow(clock, t)}}
          /\ DOMAIN run'[r].push =
                {s.id : s \in {t \in Pending(pushSubscriptions) : RowInWindow(clock, t)}}]_vars

\* a run at 08:00:00 selects an email row and a push row of offset 60 on the 09:00 event
C1_Witness ==
    \E r \in RunIds :
        /\ Active(r)
        /\ run[r].now = EightAM
        /\ \E i \in DOMAIN run[r].email :
              run[r].email[i].sub.event.start = NineAM /\ run[r].email[i].dueOffset = 60
        /\ \E i \in DOMAIN run[r].push :
              run[r].push[i].sub.event.start = NineAM /\ run[r].push[i].dueOffset = 60

\* C5: the offset is the row's customOffsetMinutes when present (0 included),
\* else the event's reminderOffsetMinutes when present, else 60, and the
\* offset a message states is the offset its row was selected with
C5_OffsetResolution ==
    [][\A r \in RunIds : Starts(r) =>
          /\ \A s \in Pending(subscriptions) :
                /\ s.customOffsetMinutes # Null =>
                      (s.id \in DOMAIN run'[r].email
                          <=> InWindow(clock, FindEvent(s.eventId).start,
                                       s.customOffsetMinutes.num))
                /\ s.id \in DOMAIN run'[r].email =>
                      /\ run'[r].email[s.id].dueOffset = RowOffset(s)
                      /\ run'[r].email[s.id].offset = run'[r].email[s.id].dueOffset
          /\ \A s \in Pending(pushSubscriptions) :
                /\ s.customOffsetMinutes # Null =>
                      (s.id \in DOMAIN run'[r].push
                          <=> InWindow(clock, FindEvent(s.eventId).start,
                                       s.customOffsetMinutes.num))
                /\ s.id \in DOMAIN run'[r].push =>
                      /\ run'[r].push[s.id].dueOffset = RowOffset(s)
                      /\ run'[r].push[s.id].offset = run'[r].push[s.id].dueOffset]_vars

\* a row with override 30 on an event with default 120 is selected and its message states 30
C5_Witness ==
    \E r \in RunIds : \E i \in DOMAIN run[r].email :
        /\ run[r].email[i].sub.customOffsetMinutes = Num(30)
        /\ run[r].email[i].sub.event.reminderOffsetMinutes = Num(120)
        /\ run[r].email[i].offset = 30

\* C2 (as claimed): an adapter call succeeds only for a row that no adapter
\* call has delivered to since the last upsert of its key
C2_AtMostOneDelivery ==
    [][\A r \in RunIds :
          /\ \A i \in DOMAIN run[r].email :
                (run[r].email[i].adapter = "pending" /\ run'[r].email[i].adapter = "ok")
                    => i \notin delivered.email
          /\ \A i \in DOMAIN run[r].push :
                (run[r].push[i].adapter = "pending" /\ run'[r].push[i].adapter = "ok")
                    => i \notin delivered.push]_vars

\* C3 (as claimed): of two runs with the same now and no upsert or delete since
\* the first started, the second delivers no row the first delivered, and a
\* row the first marked is not among the rows the second loads and counts
C3_Idempotent ==
    \A r \in RunIds : (Active(r) /\ prev # Null /\ run[r].now = prev.now) =>
        /\ \A i \in DOMAIN run[r].email :
              /\ ~(run[r].email[i].adapter = "ok" /\ i \in prev.emailDelivered)
              /\ i \notin prev.emailMarked
        /\ \A i \in DOMAIN run[r].push :
              /\ ~(run[r].push[i].adapter = "ok" /\ i \in prev.pushDelivered)
              /\ i \notin prev.pushMarked

\* the adapter outcomes of the tasks of run r
AdapterError(r) ==
    [email |-> {i \in DOMAIN run[r].email : run[r].email[i].adapter = "error"},
     push |-> {i \in DOMAIN run[r].push : run[r].push[i].adapter = "error"}]

AdapterOk(r) ==
    [email |-> {i \in DOMAIN run[r].email : run[r].email[i].adapter = "ok"},
     push |-> {i \in DOMAIN run[r].push : run[r].push[i].adapter = "ok"}]

NotifiedIds(table) == {s.id : s \in {t \in table : t.notified}}
PendingIds(table) == {s.id : s \in Pending(table)}

\* C4 (as claimed): a run with two due rows, the adapter throwing for the one
\* called first and succeeding for the other, nothing upserted or deleted
\* meanwhile, returns sent = 1 and failed = 1, leaves the second row notified
\* and the first pending
C4_PartialFailure ==
    [][\A r \in RunIds :
          ( /\ Returns(r)
            /\ ~touched
            /\ Cardinality(DOMAIN run[r].email) + Cardinality(DOMAIN run[r].push) = 2
            /\ Cardinality(AdapterError(r).email) + Cardinality(AdapterError(r).push) = 1
            /\ Cardinality(AdapterOk(r).email) + Cardinality(AdapterOk(r).push) = 1
            /\ ~(AdapterError(r).push # {} /\ AdapterOk(r).email # {}) )
          => /\ response'.sent = 1
             /\ response'.failed = 1
             /\ AdapterOk(r).email \subseteq NotifiedIds(subscriptions')
             /\ AdapterOk(r).push \subseteq NotifiedIds(pushSubscriptions')
             /\ AdapterError(r).email \subseteq PendingIds(subscriptions')
             /\ AdapterError(r).push \subseteq PendingIds(pushSubscriptions')]_vars

\* C6: a row whose adapter call failed is counted failed and is still pending
\* with no notifiedAt when the run returns, and the next run whose now is in
\* its window selects it and calls the adapter for it again
C6_FailureLeavesPending ==
    [][\A r \in RunIds :
          /\ Returns(r) =>
                /\ \A i \in AdapterError(r).email : run[r].email[i].state = "failed"
                /\ \A i \in AdapterError(r).push : run[r].push[i].state = "failed"
                /\ response'.failed >=
                      Cardinality(AdapterError(r).email) + Cardinality(AdapterError(r).push)
                /\ \A s \in subscriptions' : s.id \in AdapterError(r).email =>
                      ~s.notified /\ s.notifiedAt = Null
                /\ \A s \in pushSubscriptions' : s.id \in AdapterError(r).push =>
                      ~s.notified /\ s.notifiedAt = Null
          /\ (Starts(r) /\ prev # Null) =>
                /\ \A s \in subscriptions :
                      (s.id \in prev.emailFailed /\ RowInWindow(clock, s)) =>
                          /\ s.id \in DOMAIN run'[r].email
                          /\ run'[r].email[s.id].state = "send"
                /\ \A s \in pushSubscriptions :
                      (s.id \in prev.pushFailed /\ RowInWindow(clock, s)) =>
                          /\ s.id \in DOMAIN run'[r].push
                          /\ run'[r].push[s.id].state = "send"]_vars

\* a run retries the email row whose adapter call failed in the run before
C6_Witness ==
    \E r \in RunIds :
        /\ Active(r)
        /\ prev # Null
        /\ \E i \in DOMAIN run[r].email : i \in prev.emailFailed

\* C7 (as claimed): when a run returns and nothing was upserted or deleted
\* meanwhile, every row whose adapter call succeeded is recorded as sent and is
\* notified with notifiedAt equal to the now of the run
C7_MarkedAtNow ==
    [][\A r \in RunIds : (Returns(r) /\ ~touched) =>
          /\ \A i \in AdapterOk(r).email :
                /\ run[r].email[i].state = "sent"
                /\ \E s \in subscriptions' :
                      s.id = i /\ s.notified /\ s.notifiedAt = Num(run[r].now)
          /\ \A i \in AdapterOk(r).push :
                /\ run[r].push[i].state = "sent"
                /\ \E s \in pushSubscriptions' :
                      s.id = i /\ s.notified /\ s.notifiedAt = Num(run[r].now)]_vars

\* C8: the aggregate of a run that passed the checks counts exactly its due
\* rows: processed is the number of rows it selected, each of them was pending
\* and in its window at the now of the run, and processed = sent + failed
C8_Aggregate ==
    [][\A r \in RunIds : Returns(r) =>
          /\ response'.status = 200
          /\ response'.processed =
                Cardinality(DOMAIN run[r].email) + Cardinality(DOMAIN run[r].push)
          /\ response'.processed = response'.sent + response'.failed
          /\ response'.sent =
                Cardinality({i \in DOMAIN run[r].email : run[r].email[i].state = "sent"})
                + Cardinality({i \in DOMAIN run[r].push : run[r].push[i].state = "sent"})
          /\ \A i \in DOMAIN run[r].email :
                LET sub == run[r].email[i].sub
                IN  /\ ~sub.notified
                    /\ InWindow(run[r].now, sub.event.start,
                                ResolvedOffset(sub.customOffsetMinutes,
                                               sub.event.reminderOffsetMinutes))
          /\ \A i \in DOMAIN run[r].push :
                LET sub == run[r].push[i].sub
                IN  /\ ~sub.notified
                    /\ InWindow(run[r].now, sub.event.start,
                                ResolvedOffset(sub.customOffsetMinutes,
                                               sub.event.reminderOffsetMinutes))]_vars

\* a run has returned processed = 2, sent = 1, failed = 1
C8_Witness ==
    /\ response # Null
    /\ response.status = 200
    /\ response.processed = 2
    /\ response.sent = 1
    /\ response.failed = 1

\* C9: a POST on the key of a notified row keeps the row and sets
\* notified = false and notifiedAt = null, and the next run whose now is in
\* the row's window selects it again
C9_Resubscription ==
    [][/\ \A email \in Emails \cup {""}, endpoint \in Endpoints \cup {""},
             eventId \in EventIds, custom \in CustomInputs :
             PostSubscription(email, endpoint, eventId, custom) =>
                 /\ \A s \in subscriptions :
                       (s.notified /\ s.email = email /\ s.eventId = eventId) =>
                           \E t \in subscriptions' :
                               t.id = s.id /\ ~t.notified /\ t.notifiedAt = Null
                 /\ \A s \in pushSubscriptions :
                       (s.notified /\ s.endpoint = endpoint /\ s.eventId = eventId) =>
                           \E t \in pushSubscriptions' :
                               t.id = s.id /\ ~t.notified /\ t.notifiedAt = Null
       /\ \A r \in RunIds : Starts(r) =>
             /\ \A s \in subscriptions :
                   (s.id \in resubscribed.email /\ RowInWindow(clock, s)) =>
                       s.id \in DOMAIN run'[r].email
             /\ \A s \in pushSubscriptions :
                   (s.id \in resubscribed.push /\ RowInWindow(clock, s)) =>
                       s.id \in DOMAIN run'[r].push]_vars

\* a run has selected an email row that was notified and then upserted again
C9_Witness ==
    \E r \in RunIds : \E i \in DOMAIN run[r].email : i \in resubscribed.email

\* C10: a row whose effective offset is zero or negative is in the tasks of no
\* run and is never marked notified
C10_NonPositiveNeverDue ==
    /\ \A s \in subscriptions : RowOffset(s) <= 0 =>
          /\ ~s.notified /\ s.notifiedAt = Null
          /\ \A r \in RunIds : s.id \notin DOMAIN run[r].email
    /\ \A s \in pushSubscriptions : RowOffset(s) <= 0 =>
          /\ ~s.notified /\ s.notifiedAt = Null
          /\ \A r \in RunIds : s.id \notin DOMAIN run[r].push

\* a run inside the event's default window passes over a row with override 0
\* while it selects the push row that has no override
C10_Witness ==
    \E r \in RunIds :
        /\ Active(r)
        /\ \E s \in subscriptions :
              /\ s.customOffsetMinutes = Num(0)
              /\ FindEvent(s.eventId).reminderOffsetMinutes = Num(120)
              /\ InWindow(run[r].now, FindEvent(s.eventId).start, 120)
              /\ s.id \notin DOMAIN run[r].email
        /\ DOMAIN run[r].push # {}

\* the pending rows of either table whose event is gone
PendingOrphans ==
    {s \in Pending(subscriptions) \cup Pending(pushSubscriptions) : ~HasEvent(s.eventId)}

\* C11 (as claimed): a run over tables that hold a pending orphan raises no
\* unhandled error: every answer to an authorized trigger of the configured
\* service is the aggregate, and the orphan is in neither sent nor failed
C11_OrphanSkipped ==
    [][(response' # Null /\ response' # response /\ PendingOrphans # {})
          => /\ response'.status \in {200, 401}
             /\ response'.status = 200 =>
                   response'.sent + response'.failed <=
                       Cardinality((Pending(subscriptions) \cup Pending(pushSubscriptions))
                                       \ PendingOrphans)]_vars

\* C12: a run whose now is at or after the start of an event selects none of
\* the rows of that event, pending or not: a reminder no run picked up inside
\* its window is picked up by no later run
C12_MissedForGood ==
    [][\A r \in RunIds : Starts(r) =>
          /\ \A s \in subscriptions :
                clock >= FindEvent(s.eventId).start => s.id \notin DOMAIN run'[r].email
          /\ \A s \in pushSubscriptions :
                clock >= FindEvent(s.eventId).start => s.id \notin DOMAIN run'[r].push]_vars

\* a run at or after 09:00 has passed over a row with a positive offset that
\* was never notified
C12_Witness ==
    \E r \in RunIds :
        /\ Active(r)
        /\ run[r].now >= NineAM
        /\ \E s \in subscriptions :
              /\ ~s.notified /\ s.notifiedAt = Null
              /\ RowOffset(s) > 0
              /\ s.id \notin DOMAIN run[r].email
        /\ \E s \in pushSubscriptions :
              /\ ~s.notified
              /\ RowOffset(s) > 0
              /\ s.id \notin DOMAIN run[r].push

\* a variable of the environment holds a non-empty string
IsSet(key) == env[key] # Undefined /\ env[key] # [str |-> ""]

RequiredSet == IsSet("CRON_SECRET") /\ IsSet("SENDGRID_API_KEY") /\ IsSet("REMINDER_FROM_EMAIL")

\* the header is missing or is not exactly "Bearer <CRON_SECRET>"
BadCredential(auth) == auth = Null \/ auth.header # "Bearer " \o env.CRON_SECRET.str

\* a step of the trigger that dispatches nothing
NothingDispatched == UNCHANGED <<events, subscriptions, pushSubscriptions, run, delivered>>

\* C13: with the required secrets set, a request whose Authorization header is
\* missing or is not exactly 'Bearer <CRON_SECRET>' starts no run, and its
\* answer is 401 with no row read, no adapter called and no flag changed
C13_Unauthorized ==
    [][\A r \in RunIds, auth \in AuthHeaders :
          (RequiredSet /\ run[r].pc = "idle" /\ BadCredential(auth)) =>
              /\ ~StartRun(r, auth)
              /\ RunRejected(r, auth) => (response'.status = 401 /\ NothingDispatched)]_vars

\* the trigger has answered 401 while an email row and a push row were due
C13_Witness ==
    /\ RequiredSet
    /\ response = [status |-> 401]
    /\ \E s \in Pending(subscriptions) : RowInWindow(clock, s)
    /\ \E s \in Pending(pushSubscriptions) : RowInWindow(clock, s)
    /\ \A r \in RunIds : ~Active(r)

\* C14: with CRON_SECRET, SENDGRID_API_KEY or REMINDER_FROM_EMAIL unset or
\* empty, no request starts a run whatever its credential, and its answer is
\* 500 with no row read, no adapter called and no flag changed
C14_ConfigError ==
    [][\A r \in RunIds, auth \in AuthHeaders :
          (~RequiredSet /\ run[r].pc = "idle") =>
              /\ ~StartRun(r, auth)
              /\ RunRejected(r, auth) => (response'.status = 500 /\ NothingDispatched)]_vars

\* the trigger has answered 500 for want of the sender address alone, while
\* an email row and a push row were due
C14_Witness ==
    /\ IsSet("CRON_SECRET") /\ IsSet("SENDGRID_API_KEY") /\ ~IsSet("REMINDER_FROM_EMAIL")
    /\ response = [status |-> 500]
    /\ \E s \in Pending(subscriptions) : RowInWindow(clock, s)
    /\ \E s \in Pending(pushSubscriptions) : RowInWindow(clock, s)

\* C15 (as claimed): a run that has due push subscriptions while a push key is
\* missing answers with a configuration error, not with an aggregate that
\* counts them failed
C15_VapidFatal ==
    [][\A r \in RunIds :
          (Returns(r) /\ DOMAIN run[r].push # {}
             /\ ~(IsSet("NEXT_PUBLIC_VAPID_PUBLIC_KEY") /\ IsSet("VAPID_PRIVATE_KEY")))
          => response'.status = 500]_vars

\* the tasks of run r that have not written their flag yet
InFlight(r) ==
    [email |-> {i \in DOMAIN run[r].email : run[r].email[i].state \in {"send", "update"}},
     push |-> {i \in DOMAIN run[r].push : run[r].push[i].state \in {"send", "update"}}]

\* C16: a run that starts while another run has a row in flight, sent or not
\* but its flag not yet written, loads and selects that row as well when it
\* is in its window: nothing keeps both from delivering it
C16_OverlapLoadsSame ==
    [][\A r, other \in RunIds : (r # other /\ Starts(r)) =>
          /\ \A s \in Pending(subscriptions) :
                (s.id \in InFlight(other).email /\ RowInWindow(clock, s)) =>
                    /\ s.id \in DOMAIN run'[r].email
                    /\ run'[r].email[s.id].state = "send"
          /\ \A s \in Pending(pushSubscriptions) :
                (s.id \in InFlight(other).push /\ RowInWindow(clock, s)) =>
                    /\ s.id \in DOMAIN run'[r].push
                    /\ run'[r].push[s.id].state = "send"]_vars

\* two overlapping runs have both delivered the same email row and the same
\* push row
C16_Witness ==
    /\ \A r \in RunIds : Active(r)
    /\ \E i \in DOMAIN run[1].email \cap DOMAIN run[2].email :
          run[1].email[i].adapter = "ok" /\ run[2].email[i].adapter = "ok"
    /\ \E i \in DOMAIN run[1].push \cap DOMAIN run[2].push :
          run[1].push[i].adapter = "ok" /\ run[2].push[i].adapter = "ok"

\* the attempts of run r, except the push attempt i, are all over
OthersOver(r, i) ==
    /\ Settled(run[r].email)
    /\ \A j \in DOMAIN run[r].push \ {i} : run[r].push[j].state \in {"sent", "failed"}

\* C17 (as claimed): in a run, an attempt of either channel that has not been
\* answered yet never waits for the attempt of another due subscription to
\* finish: it can proceed, unless no other attempt is still unfinished
C17_NoBlocking ==
    \A r \in RunIds : Active(r) =>
        /\ \A i \in DOMAIN run[r].email :
              run[r].email[i].state = "send" => ENABLED (\E ok \in BOOLEAN : EmailSend(r, i, ok))
        /\ \A i \in DOMAIN run[r].push :
              run[r].push[i].state = "send" =>
                  \/ ENABLED (\E ok \in BOOLEAN : PushSend(r, i, ok))
                  \/ OthersOver(r, i)

\* C18: in every state of the tables a notified row has a notifiedAt that is
\* an instant not later than the clock, and a pending row has none
C18_StampInvariant ==
    \A s \in subscriptions \cup pushSubscriptions :
        /\ s.notified => (s.notifiedAt # Null /\ s.notifiedAt.num <= clock)
        /\ ~s.notified => s.notifiedAt = Null

\* the email row was notified at an earlier instant and the push row,
\* notified too, has been reset by an upsert
C18_Witness ==
    /\ \E s \in subscriptions : s.notified /\ s.notifiedAt.num < clock
    /\ \E s \in pushSubscriptions : s.id \in resubscribed.push /\ ~s.notified

\* a step of the trigger: an invocation moves, or a request is turned away
DispatcherStep == run' # run \/ (response' # response /\ response' # Null)

\* what a step may do to a table: the same rows, each either untouched or,
\* when it was pending and is among the delivered, marked with a timestamp
FrameOf(before, after, deliveredIds) ==
    /\ {t.id : t \in after} = {s.id : s \in before}
    /\ \A s \in before : \A t \in after : t.id = s.id =>
          \/ t = s
          \/ /\ ~s.notified
             /\ s.id \in deliveredIds
             /\ t.notifiedAt # Null
             /\ t = [s EXCEPT !.notified = TRUE, !.notifiedAt = t.notifiedAt]

\* C19: a step of the dispatcher leaves the events alone, creates and deletes
\* no subscription, and changes a subscription only from pending to notified
\* with a timestamp, and only one whose adapter call has succeeded in a run
C19_DispatcherFrame ==
    [][DispatcherStep =>
          /\ events' = events
          /\ FrameOf(subscriptions, subscriptions',
                     UNION {AdapterOk(r).email : r \in RunIds})
          /\ FrameOf(pushSubscriptions, pushSubscriptions',
                     UNION {AdapterOk(r).push : r \in RunIds})]_vars

\* a run has returned with the email row it delivered marked, next to a push
\* row with an override whose delivery failed and which is as it was
C19_Witness ==
    /\ prev # Null
    /\ prev.emailMarked # {}
    /\ prev.pushFailed # {}
    /\ \E s \in subscriptions : s.id \in prev.emailMarked /\ s.notified
    /\ \E s \in pushSubscriptions :
          s.id \in prev.pushFailed /\ ~s.notified /\ s.customOffsetMinutes = Num(30)

Rejections == {[status |-> 500], [status |-> 401]}

\* C21 (as claimed): a request that is past the two checks is answered with
\* the aggregate and with nothing else, and at that moment every selected
\* subscription has its outcome, sent or failed
C21_AlwaysAggregate ==
    [][(response' # response /\ response' # Null /\ response' \notin Rejections) =>
          /\ response'.status = 200
          /\ \E r \in RunIds :
                /\ Returns(r)
                /\ Settled(run[r].email) /\ Settled(run[r].push)
                /\ response'.processed = response'.sent + response'.failed]_vars

\* C22: after every step the tables hold at most one email row for an
\* (email, eventId) pair and at most one push row for an (endpoint, eventId)
\* pair (they start empty), and a POST on a key that has a row leaves the
\* number of rows as it is and the id on the key
C22_OnePerKey ==
    [][/\ \A s, t \in subscriptions' :
            (s.email = t.email /\ s.eventId = t.eventId) => s = t
       /\ \A s, t \in pushSubscriptions' :
            (s.endpoint = t.endpoint /\ s.eventId = t.eventId) => s = t
       /\ \A email \in Emails \cup {""}, endpoint \in Endpoints \cup {""},
             eventId \in EventIds, custom \in CustomInputs :
             PostSubscription(email, endpoint, eventId, custom) =>
                 /\ \A s \in subscriptions :
                       (s.email = email /\ s.eventId = eventId) =>
                           /\ Cardinality(subscriptions') = Cardinality(subscriptions)
                           /\ \E t \in subscriptions' : t.id = s.id /\ t.email = email
                 /\ \A s \in pushSubscriptions :
                       (s.endpoint = endpoint /\ s.eventId = eventId) =>
                           /\ Cardinality(pushSubscriptions') = Cardinality(pushSubscriptions)
                           /\ \E t \in pushSubscriptions' :
                                 t.id = s.id /\ t.endpoint = endpoint]_vars

\* each table holds its one row after a second POST on its key: the rows
\* were notified and then upserted again
C22_Witness ==
    /\ Cardinality(subscriptions) = 1
    /\ Cardinality(pushSubscriptions) = 1
    /\ \E s \in subscriptions : s.id \in resubscribed.email
    /\ \E s \in pushSubscriptions : s.id \in resubscribed.push

\* C23 (as claimed): every stored subscription, email or push, refers to an
\* event that the event table holds
C23_ReferencesEvent ==
    \A s \in subscriptions \cup pushSubscriptions : HasEvent(s.eventId)

\* the lead time a message should state for an offset: hours, rounded, from
\* 60 minutes on, the minutes themselves below
StatedLead(offset) ==
    IF offset >= 60 THEN [amount |-> (2 * offset + 60) \div 120, inHours |-> TRUE]
    ELSE [amount |-> offset, inHours |-> FALSE]

\* what a task's message states, whatever the spelling of the unit
LeadOf(task) == [amount |-> task.lead.amount, inHours |-> task.lead.unit \in {"hours", "h"}]

\* C24 (as claimed): the email and the push of every task state the lead time
\* of their offset, in hours from 60 minutes on and in minutes below
C24_LeadTime ==
    \A r \in RunIds :
        /\ \A i \in DOMAIN run[r].email :
              LeadOf(run[r].email[i]) = StatedLead(run[r].email[i].offset)
        /\ \A i \in DOMAIN run[r].push :
              LeadOf(run[r].push[i]) = StatedLead(run[r].push[i].offset)

\* the header is exactly "Bearer <ADMIN_TOKEN>"
ExactBearer(auth) ==
    /\ IsSet("ADMIN_TOKEN")
    /\ auth # Null
    /\ auth.header = "Bearer " \o env.ADMIN_TOKEN.str

\* the answer to a request that lacks the credential
RefusedWith == IF IsSet("ADMIN_TOKEN") THEN 401 ELSE 500

Refused ==
    /\ events' = events
    /\ eventResponse' # Null
    /\ eventResponse'.status = RefusedWith

\* C25: a POST /api/events, PUT or DELETE /api/events/[id] whose header is not
\* exactly 'Bearer <ADMIN_TOKEN>' leaves the event table as it was and is
\* answered 401, or 500 when ADMIN_TOKEN is unset; a subscription POST or
\* DELETE, which presents no credential, takes effect whatever ADMIN_TOKEN is
C25_AdminGuard ==
    [][/\ \/ Refused
          \/ \A auth \in {a \in AdminTryHeaders : ~ExactBearer(a)} :
                 /\ \A body \in AdminBodies : ~CreateEvent(body, auth)
                 /\ \A id \in {"e1", "gone"}, body \in AdminBodies :
                        ~UpdateEvent(id, body, auth)
                 /\ \A id \in AdminEventIds : ~DeleteEvent(id, auth)
       /\ PostSubscription("a@x", "", "weekly-practice", Undefined) =>
             \E s \in subscriptions' : s.email = "a@x" /\ s.eventId = "weekly-practice"
       /\ DeleteSubscription("a@x", "", "weekly-practice") =>
             ~\E s \in subscriptions' : s.email = "a@x" /\ s.eventId = "weekly-practice"
      ]_vars

\* an admin request was answered 401 for its header while the table holds an
\* event an admin created and a subscription that needed no credential
C25_Witness ==
    /\ eventResponse # Null
    /\ eventResponse.status = 401
    /\ HasEvent("e1")
    /\ subscriptions # {}

\* C26 (as claimed): every stored event ends no earlier than it starts
C26_EndAfterStart == \A e \in events : e.end >= e.start

\* the entries of a listing are in ascending order of start
Ascending(list) ==
    \A i, j \in DOMAIN list : i < j => list[i].start.iso <= list[j].start.iso

\* C30: a listing inserts the bundled events exactly when the event table is
\* empty and nothing otherwise, is never empty, reads the table as the seeding
\* left it, and is in ascending order of start
C30_SeedWhenEmpty ==
    [][ListEvents =>
          /\ events = {} => events' = debateEvents
          /\ events # {} => events' = events
          /\ Len(eventResponse'.body) > 0
          /\ Len(eventResponse'.body) = Cardinality(events')
          /\ {eventResponse'.body[i].id : i \in DOMAIN eventResponse'.body}
                = {e.id : e \in events'}
          /\ Ascending(eventResponse'.body)
      ]_vars

\* a listing of a table from which bundled events were deleted and to which
\* an admin added one: the deleted ones are not back
C30_Witness ==
    /\ eventResponse # Null
    /\ eventResponse.route = "GET"
    /\ Len(eventResponse.body) = 2
    /\ \E i \in DOMAIN eventResponse.body : eventResponse.body[i].id = "e1"

\* the rows of a table that a step marks notified
NewlyNotified(before, after) ==
    {s.id : s \in {t \in after : t.notified /\ ~\E u \in before : u.id = t.id /\ u.notified}}

\* some run selected the row as due, its adapter call succeeded, and the run
\* is at the flag write of that task
DeliveredInRun(tasks, id) ==
    /\ id \in DOMAIN tasks
    /\ tasks[id].adapter = "ok"
    /\ tasks[id].state = "update"

\* C27: a row is marked notified only by the run that selected it as due and
\* whose adapter call for it succeeded; a run never has more marked tasks than
\* delivered ones; an adapter is only ever called for a row a run selected
C27_MarkedAfterDelivery ==
    [][/\ \A id \in NewlyNotified(subscriptions, subscriptions') :
             \E r \in RunIds : DeliveredInRun(run[r].email, id)
       /\ \A id \in NewlyNotified(pushSubscriptions, pushSubscriptions') :
             \E r \in RunIds : DeliveredInRun(run[r].push, id)
       /\ \A r \in RunIds :
             /\ Cardinality({i \in DOMAIN run'[r].email : run'[r].email[i].state = "sent"})
                   <= Cardinality({i \in DOMAIN run'[r].email :
                                       run'[r].email[i].adapter = "ok"})
             /\ Cardinality({i \in DOMAIN run'[r].push : run'[r].push[i].state = "sent"})
                   <= Cardinality({i \in DOMAIN run'[r].push :
                                       run'[r].push[i].adapter = "ok"})
       /\ \A id \in delivered'.email \ delivered.email :
             \E r \in RunIds : id \in DOMAIN run[r].email
       /\ \A id \in delivered'.push \ delivered.push :
             \E r \in RunIds : id \in DOMAIN run[r].push
      ]_vars

\* a run marked the email row after its delivery, its push adapter failed and
\* the push row is still pending
C27_Witness ==
    \E r \in RunIds :
        /\ \E i \in DOMAIN run[r].email :
              /\ run[r].email[i].state = "sent"
              /\ \E s \in subscriptions : s.id = i /\ s.notified
        /\ \E j \in DOMAIN run[r].push :
              /\ run[r].push[j].adapter = "error"
              /\ \E s \in pushSubscriptions : s.id = j /\ ~s.notified

\* the tasks of a run whose row has been deleted since the run loaded it
Cancelled(tasks, table) == {i \in DOMAIN tasks : ~\E s \in table : s.id = i}

\* a step of task i of the tasks, every other task left as it is
StepOf(tasks, after, i) ==
    /\ DOMAIN after = DOMAIN tasks
    /\ after[i] # tasks[i]
    /\ \A j \in DOMAIN tasks \ {i} : after[j] = tasks[j]

\* what the step of a cancelled task may do: call the adapter, or, the
\* adapter having succeeded, fail at the flag write
CancelledStep(task, after) ==
    /\ task.state = "send" => after.adapter \in {"ok", "error"}
    /\ task.state = "update" => after.state = "failed"

\* C29: a task whose row was deleted after the run loaded it still has its
\* send issued; when the send succeeded, the flag write fails and the task is
\* counted as failed; the step changes no other task and no table, so the
\* deleted row does not come back
C29_CancelledInFlight ==
    [][\A r \in RunIds :
          /\ \A i \in Cancelled(run[r].email, subscriptions) :
                /\ (run[r].pc = "email" /\ run[r].email[i].state = "send") =>
                       ENABLED EmailSend(r, i, TRUE)
                /\ StepOf(run[r].email, run'[r].email, i) =>
                       /\ CancelledStep(run[r].email[i], run'[r].email[i])
                       /\ run'[r].push = run[r].push
                       /\ UNCHANGED <<subscriptions, pushSubscriptions>>
          /\ \A i \in Cancelled(run[r].push, pushSubscriptions) :
                /\ (run[r].pc = "push" /\ run[r].push[i].state = "send") =>
                       ENABLED PushSend(r, i, TRUE)
                /\ StepOf(run[r].push, run'[r].push, i) =>
                       /\ CancelledStep(run[r].push[i], run'[r].push[i])
                       /\ run'[r].email = run[r].email
                       /\ UNCHANGED <<subscriptions, pushSubscriptions>>
      ]_vars

\* the email row was deleted after the run loaded it: the send succeeded, the
\* task failed at the flag write, the row is still gone, and the push task of
\* the same run went through
C29_Witness ==
    \E r \in RunIds :
        /\ \E i \in Cancelled(run[r].email, subscriptions) :
              /\ run[r].email[i].adapter = "ok"
              /\ run[r].email[i].state = "failed"
        /\ subscriptions = {}
        /\ \E j \in DOMAIN run[r].push : run[r].push[j].state = "sent"

\* the notified rows of a table that a step changes or removes
Unmarked(before, after) == {s \in before : s.notified /\ s \notin after}

\* C28: a notified row changes only in the step of an upsert for its key; an
\* event update, also one that moves start later, leaves both subscription
\* tables as they are; and a run never selects a row that is notified
C28_OnlyUpsertResets ==
    [][/\ (Unmarked(subscriptions, subscriptions') # {}
            \/ Unmarked(pushSubscriptions, pushSubscriptions') # {}) =>
              PostSubscription("a@x", "https://push/p", "e1", Undefined)
       /\ events' # events => UNCHANGED <<subscriptions, pushSubscriptions>>
       /\ \A r \in RunIds : Starts(r) =>
             /\ \A id \in NotifiedIds(subscriptions) : id \notin DOMAIN run'[r].email
             /\ \A id \in NotifiedIds(pushSubscriptions) : id \notin DOMAIN run'[r].push
      ]_vars

\* the event has been moved to 10:00 after both rows were notified; a run
\* that started at 09:00, inside the new window of both rows, selected neither
C28_Witness ==
    \E r \in RunIds :
        /\ run[r].pc = "email"
        /\ run[r].now = NineAM
        /\ FindEvent("e1").start = TenAM
        /\ run[r].email = <<>> /\ run[r].push = <<>>
        /\ \E s \in subscriptions :
              s.notified /\ s.notifiedAt = Num(EightAM) /\ RowInWindow(run[r].now, s)
        /\ \E s \in pushSubscriptions :
              s.notified /\ s.notifiedAt = Num(EightAM) /\ RowInWindow(run[r].now, s)

====
